---- MODULE Spec2Model ----
(***************************************************************************)
(* Verification model of yadavlaxmi/placement-lead-automation.             *)
(*                                                                         *)
(* The subsystems of the repository are modelled, each with its own        *)
(* specifications over the same variables:                                 *)
(*   Spec        : telegram-database-v2, PersistentAssignmentEngine        *)
(*                  over DatabaseRepository, driven by TelegramJobScraperV2 *)
(*   SpecHistory : the engine operations that write assignment_history     *)
(*   SpecTracker : improved_daily_scraper.py, GroupTracker and             *)
(*                  ImprovedDailyJobScraper.simulate_group_joining          *)
(*   SpecQuota   : the operations on GroupTracker's table daily_joins      *)
(*   SpecManager : universal_group_manager.py, UniversalGroupManager       *)
(*   SpecCrawler : crawler.py, the join loop of JobCrawler over the        *)
(*                  manager and DatabaseManager                             *)
(*   SpecCatalog : the groups table of both repositories and the order of  *)
(*                  select_groups_to_join                                   *)
(*   SpecScoring : crawler.py and database/database.py, the credibility    *)
(*                  score of programming_groups                             *)
(*   SpecAnalyzer: job_analyzer.py, real_daily_scraper.py,                 *)
(*                  run_daily_scraper.py and services/telegram_service.py:  *)
(*                  message classification and channel analysis             *)
(*   SpecClassifier: is_job_message called between the writes of table    *)
(*                  daily_joins                                             *)
(*   SpecReset   : universal_group_manager.py and main.py, hand-outs with  *)
(*                  reset_daily_joins in between                            *)
(***************************************************************************)
EXTENDS Integers, Sequences, FiniteSets, TLC

(***************************************************************************)
(* Bounds of the model.                                                    *)
(***************************************************************************)
NAccounts == 2
NGroups == 2
NProcs == 2
MaxRows == 3

Accounts == 1..NAccounts
Groups == 1..NGroups
Procs == 1..NProcs

(***************************************************************************)
(* Program constants.                                                      *)
(***************************************************************************)
DAILY_JOIN_LIMIT == 10
MAX_GROUPS_PER_ACCOUNT == 1000

VARIABLES
    repo,         \* which DatabaseRepository the engine is deployed with
    assignments,  \* table persistent_assignments: set of rows
    nextId,       \* stands for uuid.uuid4(): the next unused row id
    history,      \* table assignment_history: sequence of entries
    pc,           \* position of each process in the call it is executing
    acct,         \* account argument of the running call (0: none)
    grp,          \* group argument of the running call (0: none)
    caller,       \* who called join_group: "client" or "pa" (process_account)
    ret,          \* value returned by the engine call that just ended
    snap,         \* process_account: available_groups as read from the store
    toJoin,       \* process_account: groups_to_join still to be joined
    attempt,      \* bookkeeping: what create_assignment did in the running call
                  \* and how its failure reached the caller
    rel           \* bookkeeping: the release calls made in a row for one pair

engineVars == <<repo, assignments, nextId, history, pc, acct, grp, caller, ret,
                snap, toJoin, attempt, rel>>

VARIABLES
    universalGroups,  \* content of data/universal_groups.json: a list of groups
    dailyJoins,       \* per instance: accounts_daily_joins[today]
    crawl,            \* per instance: the join loop of the crawler for one account
    programmingGroups,        \* table programming_groups: joined_by_account per link
    accountGroupAssignments   \* table account_group_assignments: set of rows

managerVars == <<universalGroups, dailyJoins, crawl, programmingGroups,
                 accountGroupAssignments>>

VARIABLES
    today,         \* datetime.now().date()
    groupsTable,   \* tracker table groups: rows in rowid order
    dailyJoinsRow, \* tracker table daily_joins: groups_joined per (account, date)
    tpc,           \* position of each process in simulate_group_joining
    tacct,         \* account of the running simulate_group_joining (0: none)
    seen,          \* bookkeeping: groups_joined as read by check_daily_limit
    uniqueGroups,  \* unique_groups still to be added
    joinedGroups   \* len(joined_groups) so far

trackerVars == <<today, groupsTable, dailyJoinsRow, tpc, tacct, seen, uniqueGroups,
                 joinedGroups>>

VARIABLES
    groupsCatalog,  \* repository table groups: rows in rowid order
    catalogNextId,  \* stands for uuid.uuid4(): the next unused group id
    pgScore         \* table programming_groups: credibility_score per link

catalogVars == <<groupsCatalog, catalogNextId, pgScore>>

VARIABLES
    returned        \* what the last call of a classifier or analyser returned
analyzerVars == <<returned>>

vars == <<engineVars, managerVars, trackerVars, catalogVars, analyzerVars>>

\* what the operations of one subsystem leave alone
nonEngineVars == <<managerVars, trackerVars, catalogVars, analyzerVars>>
nonManagerVars == <<engineVars, trackerVars, catalogVars, analyzerVars>>
nonTrackerVars == <<engineVars, managerVars, catalogVars, analyzerVars>>
nonCatalogVars == <<engineVars, managerVars, trackerVars, analyzerVars>>
nonAnalyzerVars == <<engineVars, managerVars, trackerVars, catalogVars>>

(***************************************************************************)
(* Helpers.                                                                *)
(***************************************************************************)
RECURSIVE SeqOfSet(_)
SeqOfSet(S) ==
    IF S = {} THEN <<>>
    ELSE LET m == CHOOSE x \in S : \A y \in S : x <= y
         IN <<m>> \o SeqOfSet(S \ {m})

Range(s) == {s[i] : i \in 1..Len(s)}

NoAttempt == [rowId |-> 0, conflict |-> FALSE, storeError |-> FALSE, raised |-> FALSE]

NoRelease == [account |-> 0, group |-> 0, calls |-> 0, ok |-> FALSE]

(***************************************************************************)
(* database/schema.sql is not among the sources.  persistent_assignments   *)
(* is modelled with the constraints the specification gives it: id is the  *)
(* primary key and there is a unique index on group_id for the rows with   *)
(* status = 'active'.                                                      *)
(***************************************************************************)
\* A variant of the constraints without the unique index on active group_id.
PrimaryKeyConflicts(rows, r) == {x \in rows : x.id = r.id}

UniqueConflicts(rows, r) ==
    {x \in rows : \/ x.id = r.id
                  \/ /\ x.group = r.group
                     /\ x.status = "active"
                     /\ r.status = "active"}

(***************************************************************************)
(* DatabaseRepository.create_assignment.                                   *)
(*                                                                         *)
(* telegram-database-v2/database/repository.py: the first statement inside *)
(* the try block reads the undefined name group_data, so NameError is      *)
(* raised before the INSERT, caught, and False is returned.                *)
(*                                                                         *)
(* database/repository.py: INSERT OR REPLACE is executed and committed     *)
(* (rows that violate a uniqueness constraint are deleted first), then     *)
(* `return group_data["id"]` raises NameError, which is caught, and False  *)
(* is returned.                                                            *)
(***************************************************************************)
CreateAssignmentV2(rows, r) == [rows |-> rows, ok |-> FALSE]

CreateAssignmentLegacy(rows, r) ==
    [rows |-> (rows \ UniqueConflicts(rows, r)) \cup {r}, ok |-> FALSE]

CreateAssignment(variant, rows, r) ==
    IF variant = "v2" THEN CreateAssignmentV2(rows, r)
    ELSE CreateAssignmentLegacy(rows, r)

\* DatabaseRepository.get_assignment: any row of the pair, whatever its status.
GetAssignment(rows, a, g) == {x \in rows : x.account = a /\ x.group = g}

(***************************************************************************)
(* DatabaseRepository.update_assignment_status: UPDATE of every row of the *)
(* pair, committed.  v2 returns True without looking at the row count;     *)
(* database/repository.py raises NameError after the commit and returns    *)
(* False.                                                                  *)
(***************************************************************************)
UpdatedRows(rows, a, g, status) ==
    {IF x.account = a /\ x.group = g THEN [x EXCEPT !.status = status] ELSE x
        : x \in rows}

UpdateAssignmentStatus(variant, rows, a, g, status) ==
    [rows |-> UpdatedRows(rows, a, g, status), ok |-> (variant = "v2")]

(***************************************************************************)
(* DatabaseRepository.create_assignment_history: v2 raises NameError       *)
(* before the INSERT; database/repository.py commits the INSERT and then   *)
(* raises.  Both return False, which log_assignment_action ignores.        *)
(***************************************************************************)
\* A variant of create_assignment_history that keeps one entry per pair.
CreateAssignmentHistoryPerPair(variant, hist, e) ==
    LET other(h) == ~(h.account = e.account /\ h.group = e.group)
    IN IF variant = "v2" THEN hist ELSE Append(SelectSeq(hist, other), e)

CreateAssignmentHistory(variant, hist, e) ==
    IF variant = "v2" THEN hist ELSE Append(hist, e)

\* PersistentAssignmentEngine.log_assignment_action
LogAssignmentAction(variant, hist, a, g, action) ==
    CreateAssignmentHistory(variant, hist, [account |-> a, group |-> g, action |-> action])

\* DatabaseRepository.get_all_assigned_group_ids
GetAllAssignedGroupIds(rows) == {x.group : x \in {y \in rows : y.status = "active"}}

\* PersistentAssignmentEngine.get_available_groups (groups in table order)
GetAvailableGroups(rows) == SeqOfSet(Groups \ GetAllAssignedGroupIds(rows))

(***************************************************************************)
(* HumanBehaviorSimulator.should_join_group / select_groups_to_join.       *)
(* The account state is a record; kind = "dict" is what                    *)
(* TelegramJobScraperV2.get_account_state returns: reading its attribute   *)
(* active_groups raises AttributeError, which should_join_group catches    *)
(* and answers False.  With an AccountState object the answer is random.   *)
(***************************************************************************)
ShouldJoinGroup(state) ==
    IF state.kind = "dict" THEN {FALSE}
    ELSE IF Cardinality(state.active_groups) >= MAX_GROUPS_PER_ACCOUNT THEN {FALSE}
    ELSE {TRUE, FALSE}

RECURSIVE SelectFrom(_, _, _)
SelectFrom(sorted, state, selected) ==
    IF sorted = <<>> \/ Len(selected) >= DAILY_JOIN_LIMIT THEN {selected}
    ELSE UNION {IF d THEN SelectFrom(Tail(sorted), state, Append(selected, Head(sorted)))
                     ELSE SelectFrom(Tail(sorted), state, selected)
                : d \in ShouldJoinGroup(state)}

SelectGroupsToJoin(available, state) == SelectFrom(available, state, <<>>)

\* TelegramJobScraperV2.get_account_state returns a dict
GetAccountState(rows, a) ==
    [kind |-> "dict",
     active_groups |-> {x.group : x \in {y \in rows : y.account = a /\ y.status = "active"}}]

InFlight == Cardinality({p \in Procs : pc[p] \in {"assign_get", "assign_create"}})

Back(p) == IF caller[p] = "pa" THEN "pa_join" ELSE "returned"

(***************************************************************************)
(* Initial state: the store is empty, every process is idle.               *)
(***************************************************************************)
InitEngine ==
    /\ repo \in {"v2", "legacy"}
    /\ assignments = {}
    /\ nextId = 1
    /\ history = <<>>
    /\ pc = [p \in Procs |-> "idle"]
    /\ acct = [p \in Procs |-> 0]
    /\ grp = [p \in Procs |-> 0]
    /\ caller = [p \in Procs |-> "client"]
    /\ ret = [p \in Procs |-> "none"]
    /\ snap = [p \in Procs |-> <<>>]
    /\ toJoin = [p \in Procs |-> <<>>]
    /\ attempt = [p \in Procs |-> NoAttempt]
    /\ rel = NoRelease

(***************************************************************************)
(* TelegramJobScraperV2.join_group: the Telegram join succeeds or fails;   *)
(* on success assign_group_to_account is called.  Called by a client or    *)
(* by the loop of process_account (lines 105-106).                         *)
(***************************************************************************)
JoinGroup(p) ==
    /\ pc[p] \in {"idle", "pa_join"}
    /\ pc[p] = "pa_join" => toJoin[p] # <<>>
    /\ nextId + InFlight <= MaxRows
    /\ \E a \in Accounts, g \in Groups, joined \in BOOLEAN :
        /\ pc[p] = "pa_join" => (a = acct[p] /\ g = Head(toJoin[p]))
        /\ acct' = [acct EXCEPT ![p] = IF joined \/ pc[p] = "pa_join" THEN a ELSE 0]
        /\ grp' = [grp EXCEPT ![p] = IF joined THEN g ELSE 0]
        /\ caller' = [caller EXCEPT ![p] = IF pc[p] = "pa_join" THEN "pa" ELSE "client"]
        /\ toJoin' = [toJoin EXCEPT ![p] = IF pc[p] = "pa_join" THEN Tail(@) ELSE @]
        /\ pc' = [pc EXCEPT ![p] = IF joined THEN "assign_get" ELSE @]
    /\ UNCHANGED nonEngineVars
    /\ UNCHANGED <<repo, assignments, nextId, history, ret, snap, attempt, rel>>

\* A variant of AssignGet that sets an existing row of the pair back to active.
AssignGetReactivate(p) ==
    /\ pc[p] = "assign_get"
    /\ IF GetAssignment(assignments, acct[p], grp[p]) # {}
       THEN /\ ret' = [ret EXCEPT ![p] = TRUE]
            /\ pc' = [pc EXCEPT ![p] = Back(p)]
            /\ assignments' = UpdatedRows(assignments, acct[p], grp[p], "active")
       ELSE /\ pc' = [pc EXCEPT ![p] = "assign_create"]
            /\ ret' = ret
            /\ assignments' = assignments
    /\ UNCHANGED nonEngineVars
    /\ UNCHANGED <<repo, nextId, history, acct, grp, caller, snap, toJoin, attempt, rel>>

\* assign_group_to_account, lines 25-28: an existing row of the pair ends the call
AssignGet(p) ==
    /\ pc[p] = "assign_get"
    /\ IF GetAssignment(assignments, acct[p], grp[p]) # {}
       THEN /\ ret' = [ret EXCEPT ![p] = TRUE]
            /\ pc' = [pc EXCEPT ![p] = Back(p)]
       ELSE /\ pc' = [pc EXCEPT ![p] = "assign_create"]
            /\ ret' = ret
    /\ UNCHANGED nonEngineVars
    /\ UNCHANGED <<repo, assignments, nextId, history, acct, grp, caller, snap, toJoin,
                   attempt, rel>>

\* assign_group_to_account, lines 31-47: create the row, log it on success
AssignCreate(p) ==
    /\ pc[p] = "assign_create"
    /\ LET r == [id |-> nextId, account |-> acct[p], group |-> grp[p], status |-> "active"]
           res == CreateAssignment(repo, assignments, r)
           held == \E x \in assignments :
                      x.group = grp[p] /\ x.status = "active" /\ x.account # acct[p]
       IN /\ assignments' = res.rows
          /\ nextId' = IF r \in res.rows THEN nextId + 1 ELSE nextId
          /\ history' = IF res.ok
                        THEN LogAssignmentAction(repo, history, acct[p], grp[p], "joined")
                        ELSE history
          /\ ret' = [ret EXCEPT ![p] = res.ok]
          /\ attempt' = [attempt EXCEPT ![p] =
                            [rowId |-> IF r \in res.rows THEN r.id ELSE 0,
                             conflict |-> held,
                             \* create_assignment returns False from its except
                             \* branch only; lines 47-51 return it or False
                             storeError |-> ~res.ok,
                             raised |-> FALSE]]
          /\ rel' = IF r \in res.rows /\ rel.account = acct[p] /\ rel.group = grp[p]
                    THEN NoRelease ELSE rel
    /\ pc' = [pc EXCEPT ![p] = Back(p)]
    /\ UNCHANGED nonEngineVars
    /\ UNCHANGED <<repo, acct, grp, caller, snap, toJoin>>

(***************************************************************************)
(* TelegramJobScraperV2.leave_group: on a successful Telegram leave,       *)
(* unassign_group_from_account is called.                                  *)
(***************************************************************************)
LeaveGroup(p) ==
    /\ pc[p] = "idle"
    /\ \E a \in Accounts, g \in Groups, left \in BOOLEAN :
        /\ acct' = [acct EXCEPT ![p] = IF left THEN a ELSE 0]
        /\ grp' = [grp EXCEPT ![p] = IF left THEN g ELSE 0]
        /\ pc' = [pc EXCEPT ![p] = IF left THEN "unassign_update" ELSE @]
    /\ UNCHANGED nonEngineVars
    /\ UNCHANGED <<repo, assignments, nextId, history, caller, ret, snap, toJoin, attempt,
                   rel>>

\* unassign_group_from_account, line 57
UnassignUpdate(p) ==
    /\ pc[p] = "unassign_update"
    /\ LET res == UpdateAssignmentStatus(repo, assignments, acct[p], grp[p], "left")
           hadActive == \E x \in assignments :
                           x.account = acct[p] /\ x.group = grp[p] /\ x.status = "active"
           again == rel.account = acct[p] /\ rel.group = grp[p] /\ rel.calls > 0
       IN /\ assignments' = res.rows
          /\ ret' = [ret EXCEPT ![p] = res.ok]
          /\ rel' = IF again
                    THEN [rel EXCEPT !.calls = IF @ < 2 THEN @ + 1 ELSE @, !.ok = res.ok]
                    ELSE IF hadActive
                    THEN [account |-> acct[p], group |-> grp[p], calls |-> 1, ok |-> res.ok]
                    ELSE NoRelease
          /\ pc' = [pc EXCEPT ![p] = IF res.ok THEN "unassign_log" ELSE "returned"]
    /\ UNCHANGED nonEngineVars
    /\ UNCHANGED <<repo, nextId, history, acct, grp, caller, snap, toJoin, attempt>>

\* unassign_group_from_account, lines 59-64
UnassignLog(p) ==
    /\ pc[p] = "unassign_log"
    /\ history' = LogAssignmentAction(repo, history, acct[p], grp[p], "left")
    /\ pc' = [pc EXCEPT ![p] = "returned"]
    /\ UNCHANGED nonEngineVars
    /\ UNCHANGED <<repo, assignments, nextId, acct, grp, caller, ret, snap, toJoin,
                   attempt, rel>>

\* the engine call of a client has returned; the client goes on
Return(p) ==
    /\ pc[p] = "returned"
    /\ pc' = [pc EXCEPT ![p] = "idle"]
    /\ acct' = [acct EXCEPT ![p] = 0]
    /\ grp' = [grp EXCEPT ![p] = 0]
    /\ ret' = [ret EXCEPT ![p] = "none"]
    /\ attempt' = [attempt EXCEPT ![p] = NoAttempt]
    /\ UNCHANGED nonEngineVars
    /\ UNCHANGED <<repo, assignments, nextId, history, caller, snap, toJoin, rel>>

(***************************************************************************)
(* TelegramJobScraperV2.process_account.  get_account_state returns a      *)
(* dict, so simulate_leave_decision raises AttributeError inside its try   *)
(* and returns [] (lines 87-94 leave nothing).                             *)
(***************************************************************************)
ProcessAccountAvailable(p) ==
    /\ pc[p] = "idle"
    /\ \E a \in Accounts : acct' = [acct EXCEPT ![p] = a]
    /\ snap' = [snap EXCEPT ![p] = GetAvailableGroups(assignments)]
    /\ pc' = [pc EXCEPT ![p] = "pa_select"]
    /\ UNCHANGED nonEngineVars
    /\ UNCHANGED <<repo, assignments, nextId, history, grp, caller, ret, toJoin, attempt,
                   rel>>

ProcessAccountSelect(p) ==
    /\ pc[p] = "pa_select"
    /\ \E sel \in SelectGroupsToJoin(snap[p], GetAccountState(assignments, acct[p])) :
        toJoin' = [toJoin EXCEPT ![p] = sel]
    /\ pc' = [pc EXCEPT ![p] = "pa_join"]
    /\ UNCHANGED nonEngineVars
    /\ UNCHANGED <<repo, assignments, nextId, history, acct, grp, caller, ret, snap,
                   attempt, rel>>

ProcessAccountDone(p) ==
    /\ pc[p] = "pa_join"
    /\ toJoin[p] = <<>>
    /\ pc' = [pc EXCEPT ![p] = "idle"]
    /\ acct' = [acct EXCEPT ![p] = 0]
    /\ grp' = [grp EXCEPT ![p] = 0]
    /\ ret' = [ret EXCEPT ![p] = "none"]
    /\ snap' = [snap EXCEPT ![p] = <<>>]
    /\ caller' = [caller EXCEPT ![p] = "client"]
    /\ attempt' = [attempt EXCEPT ![p] = NoAttempt]
    /\ UNCHANGED nonEngineVars
    /\ UNCHANGED <<repo, assignments, nextId, history, toJoin, rel>>

(***************************************************************************)
(* PersistentAssignmentEngine.log_assignment_action called by a client of  *)
(* the engine: one INSERT into assignment_history.                         *)
(***************************************************************************)
MaxHistory == 2

LogAssignment(p) ==
    /\ pc[p] = "idle"
    /\ Len(history) < MaxHistory
    /\ \E a \in Accounts, g \in Groups, action \in {"joined", "left"} :
        history' = LogAssignmentAction(repo, history, a, g, action)
    /\ UNCHANGED nonEngineVars
    /\ UNCHANGED <<repo, assignments, nextId, pc, acct, grp, caller, ret, snap, toJoin,
                   attempt, rel>>

\* the operations that write assignment_history
NextHistory ==
    \E p \in Procs :
        \/ LogAssignment(p)
        \/ LeaveGroup(p)
        \/ UnassignUpdate(p)
        \/ UnassignLog(p)
        \/ Return(p)

NextEngine ==
    \E p \in Procs :
        \/ JoinGroup(p)
        \/ AssignGet(p)
        \/ AssignCreate(p)
        \/ LeaveGroup(p)
        \/ UnassignUpdate(p)
        \/ UnassignLog(p)
        \/ Return(p)
        \/ ProcessAccountAvailable(p)
        \/ ProcessAccountSelect(p)
        \/ ProcessAccountDone(p)

(***************************************************************************)
(* UniversalGroupManager (universal_group_manager.py).                     *)
(* The universal list is the file data/universal_groups.json, shared by    *)
(* every instance; accounts_daily_joins is a field of each instance.       *)
(***************************************************************************)
NInstances == 2
NLinks == 3
MaxList == 5
MaxLimit == 2

Instances == 1..NInstances
DefaultLinks == 1..NLinks
AllLinks == 1..(NLinks + 1)
Limits == 1..MaxLimit

\* _get_default_groups: unique links, priorities in no particular order
DefaultPriority(l) ==
    CASE l % 3 = 1 -> "high"
      [] l % 3 = 2 -> "low"
      [] OTHER     -> "medium"

GetDefaultGroups == [l \in DefaultLinks |-> [link |-> l, priority |-> DefaultPriority(l)]]

\* __init__: accounts_daily_joins = {} (has: the key of today is present)
NewManager == [has |-> FALSE, joins |-> [a \in Accounts |-> <<>>]]

\* no join loop is running: account 0, nothing to join, nothing failed
NoCrawl == [account |-> 0, todo |-> <<>>, failed |-> {}]

InitManager ==
    /\ universalGroups = GetDefaultGroups
    /\ dailyJoins = [i \in Instances |-> NewManager]
    /\ crawl = [i \in Instances |-> NoCrawl]
    /\ programmingGroups = [l \in AllLinks |-> 0]
    /\ accountGroupAssignments = {}

\* priority_order.get(priority, 1)
PriorityOrder(pr) ==
    CASE pr = "high"   -> 3
      [] pr = "medium" -> 2
      [] OTHER         -> 1

HasRank(n, g) == PriorityOrder(g.priority) = n

IsHigh(g) == HasRank(3, g)
IsMedium(g) == HasRank(2, g)
IsLow(g) == HasRank(1, g)

\* list.sort(key = priority_order, reverse = True): a stable sort
SortByPriority(gs) == SelectSeq(gs, IsHigh) \o SelectSeq(gs, IsMedium) \o SelectSeq(gs, IsLow)

\* available_groups[:limit]
Take(s, n) == SubSeq(s, 1, IF Len(s) < n THEN Len(s) ELSE n)

Links(gs) == [k \in 1..Len(gs) |-> gs[k].link]

\* the groups recorded today for the accounts other than a
OtherAccountsJoined(joins, a) == UNION {Range(joins[b]) : b \in Accounts \ {a}}

\* get_groups_for_account, lines 165-186: the groups the call returns
SelectedGroups(all, joins, a, limit) ==
    LET already == Range(joins[a])
        others  == OtherAccountsJoined(joins, a)
        free(g) == g.link \notin already /\ g.link \notin others
    IN Take(SortByPriority(SelectSeq(all, free)), limit)

\* get_groups_for_account: the whole call on instance i
GetGroupsForAccount(i, a, limit) ==
    LET selected == SelectedGroups(universalGroups, dailyJoins[i].joins, a, limit)
    IN /\ dailyJoins' = [dailyJoins EXCEPT
                            ![i] = [has |-> TRUE,
                                    joins |-> [@.joins EXCEPT ![a] = @ \o Links(selected)]]]
       /\ UNCHANGED <<universalGroups, crawl, programmingGroups, accountGroupAssignments>>
       /\ UNCHANGED nonManagerVars

RECURSIVE AppendNew(_, _, _)
\* add_discovered_groups, lines 144-149: existing_links is computed once,
\* before the loop, and is not extended by the loop
AppendNew(current, existing, new) ==
    IF new = <<>> THEN current
    ELSE AppendNew(IF Head(new).link \notin existing
                   THEN Append(current, Head(new)) ELSE current,
                   existing, Tail(new))

\* the lists of groups a search can hand to add_discovered_groups
Discovered ==
    LET G == [link : AllLinks, priority : {"high"}]
    IN {<<g>> : g \in G} \cup {<<g, h>> : g \in G, h \in G}

AddDiscoveredGroups(i, new) ==
    LET saved == AppendNew(universalGroups, Range(Links(universalGroups)), new)
    IN /\ Len(saved) <= MaxList
       /\ universalGroups' = saved
       /\ UNCHANGED <<dailyJoins, crawl, programmingGroups, accountGroupAssignments>>
       /\ UNCHANGED nonManagerVars

\* reset_daily_joins: del accounts_daily_joins[today]
ResetDailyJoins(i) ==
    /\ dailyJoins' = [dailyJoins EXCEPT ![i] = NewManager]
    /\ UNCHANGED <<universalGroups, crawl, programmingGroups, accountGroupAssignments>>
    /\ UNCHANGED nonManagerVars

\* the process that owns instance i is started again: __init__
Restart(i) ==
    /\ dailyJoins' = [dailyJoins EXCEPT ![i] = NewManager]
    /\ crawl' = [crawl EXCEPT ![i] = NoCrawl]
    /\ UNCHANGED <<universalGroups, programmingGroups, accountGroupAssignments>>
    /\ UNCHANGED nonManagerVars

\* get_account_status counts the joins of today against the literal 10 of
\* lines 252 and 256; the model keeps that number below the length of the
\* universal list, as it is in the code
StatusQuota == 2

\* a variant of get_account_status that does not clamp at zero
GetAccountStatusUnclamped(m, a) ==
    IF ~m.has
    THEN [joined_today |-> 0, remaining |-> StatusQuota]
    ELSE [joined_today |-> Len(m.joins[a]),
          remaining |-> StatusQuota - Len(m.joins[a])]

\* get_account_status on an instance whose accounts_daily_joins is m
GetAccountStatus(m, a) ==
    IF ~m.has
    THEN [joined_today |-> 0, remaining |-> StatusQuota]
    ELSE [joined_today |-> Len(m.joins[a]),
          remaining |-> IF StatusQuota - Len(m.joins[a]) > 0
                        THEN StatusQuota - Len(m.joins[a]) ELSE 0]

(***************************************************************************)
(* JobCrawler._join_unique_groups_from_universal_list (crawler.py) over    *)
(* DatabaseManager (database/database.py).  database/schema.sql is not     *)
(* among the sources: programming_groups is modelled with group_link       *)
(* unique, as the specification's upsert by link has it, and               *)
(* account_group_assignments with its rows unique.                         *)
(***************************************************************************)
\* the row that makes INSERT OR IGNORE INTO programming_groups do nothing
ProgrammingGroupConflict(pg, link) == pg[link] # 0

\* cursor.lastrowid after an INSERT that was ignored on a new connection
NoRowId == 0

\* insert_programming_group: the table after the call and the id it returns
InsertProgrammingGroup(pg, link, a) ==
    IF ProgrammingGroupConflict(pg, link)
    THEN [rows |-> pg, id |-> NoRowId]
    ELSE [rows |-> [pg EXCEPT ![link] = a], id |-> link]

\* insert_account_group_assignment
InsertAccountGroupAssignment(aga, a, gid) == aga \cup {[account |-> a, group |-> gid]}

\* lines 148-151: the crawler asks the manager for the groups of one account
CrawlerSelect(i, a) ==
    LET selected == SelectedGroups(universalGroups, dailyJoins[i].joins, a, MaxLimit)
    IN /\ crawl[i].todo = <<>>
       /\ dailyJoins' = [dailyJoins EXCEPT
                            ![i] = [has |-> TRUE,
                                    joins |-> [@.joins EXCEPT ![a] = @ \o Links(selected)]]]
       /\ crawl' = [crawl EXCEPT ![i] = [account |-> a, todo |-> Links(selected),
                                         failed |-> {}]]
       /\ UNCHANGED <<universalGroups, programmingGroups, accountGroupAssignments>>
       /\ UNCHANGED nonManagerVars

\* lines 155-186: one turn of the loop, the Telegram join succeeds or fails
CrawlerJoin(i) ==
    /\ crawl[i].todo # <<>>
    /\ \E success \in BOOLEAN :
        LET link == Head(crawl[i].todo)
            a == crawl[i].account
            res == InsertProgrammingGroup(programmingGroups, link, a)
        IN IF success
           THEN /\ programmingGroups' = res.rows
                /\ accountGroupAssignments' =
                       InsertAccountGroupAssignment(accountGroupAssignments, a, res.id)
                /\ crawl' = [crawl EXCEPT ![i].todo = Tail(@)]
           ELSE /\ crawl' = [crawl EXCEPT ![i].todo = Tail(@),
                                          ![i].failed = @ \cup {link}]
                /\ UNCHANGED <<programmingGroups, accountGroupAssignments>>
    /\ UNCHANGED <<universalGroups, dailyJoins>>
    /\ UNCHANGED nonManagerVars

NextManager ==
    \E i \in Instances :
        \/ \E a \in Accounts, limit \in Limits : GetGroupsForAccount(i, a, limit)
        \/ \E new \in Discovered : AddDiscoveredGroups(i, new)
        \/ ResetDailyJoins(i)
        \/ Restart(i)

\* the crawler processes: each joins for its accounts and may be started again
NextCrawler ==
    \E i \in Instances :
        \/ \E a \in Accounts : CrawlerSelect(i, a)
        \/ CrawlerJoin(i)
        \/ Restart(i)

(***************************************************************************)
(* GroupTracker and ImprovedDailyJobScraper (improved_daily_scraper.py).   *)
(* Every tracker method opens its own connection and commits by itself,    *)
(* so each is one step; processes run simulate_group_joining concurrently  *)
(* on the same database file.                                              *)
(***************************************************************************)
\* The code's numbers are 10 (check_daily_limit), 10 (groups_per_account) and
\* 40 (the groups of available_groups_pool); the model keeps the relations
\* DailyLimit = GroupsPerAccount < PoolSize on a smaller scale.
DailyLimit == 3
GroupsPerAccount == 3
PoolSize == 5
MaxDays == 2

Days == 1..MaxDays

\* the limit get_unique_groups_for_account passes to the tracker query
QueryLimit == 50

NoRow == -1

NoSeen == [count |-> NoRow, date |-> 0]

\* available_groups_pool: names (and links) are unique, so a group is its index
AvailableGroupsPool == [k \in 1..PoolSize |-> k]

InitTracker ==
    /\ today = 1
    /\ groupsTable = <<>>
    /\ dailyJoinsRow = [a \in Accounts, d \in Days |-> NoRow]
    /\ tpc = [p \in Procs |-> "idle"]
    /\ tacct = [p \in Procs |-> 0]
    /\ seen = [p \in Procs |-> NoSeen]
    /\ uniqueGroups = [p \in Procs |-> <<>>]
    /\ joinedGroups = [p \in Procs |-> 0]

\* check_daily_limit: True when the row of today says 10 or more
CheckDailyLimit(dj, a, d) == IF dj[a, d] # NoRow THEN dj[a, d] >= DailyLimit ELSE FALSE

\* get_available_groups_for_account: WHERE joined_by_account != ? ... LIMIT ?
GetAvailableGroupsForAccount(tbl, a, limit) ==
    LET notMine(r) == r.account # a
    IN Links(Take(SelectSeq(tbl, notMine), limit))

RECURSIVE FirstUnique(_, _, _)
\* get_unique_groups_for_account, lines 284-290
FirstUnique(available, sel, n) ==
    IF available = <<>> \/ Len(sel) >= n THEN sel
    ELSE FirstUnique(Tail(available),
                     IF Head(available) \in Range(sel) THEN sel
                     ELSE Append(sel, Head(available)), n)

RECURSIVE FillFromPool(_, _, _)
\* get_unique_groups_for_account, lines 293-298
FillFromPool(sel, pool, n) ==
    IF Len(sel) < n /\ Len(sel) < Len(pool) /\ Range(pool) \ Range(sel) # {}
    THEN LET k == CHOOSE i \in 1..Len(pool) :
                    /\ pool[i] \notin Range(sel)
                    /\ \A j \in 1..(i - 1) : pool[j] \in Range(sel)
         IN FillFromPool(Append(sel, pool[k]), pool, n)
    ELSE sel

\* the variant of the selection that returns every group it has collected
GetUniqueGroupsUncapped(tbl, a) ==
    LET fromDb == GetAvailableGroupsForAccount(tbl, a, QueryLimit)
        available == IF fromDb = <<>> THEN AvailableGroupsPool ELSE fromDb
    IN FillFromPool(FirstUnique(available, <<>>, PoolSize), AvailableGroupsPool, PoolSize)

\* get_unique_groups_for_account, lines 278-300 (after its limit check)
GetUniqueGroups(tbl, a) ==
    LET fromDb == GetAvailableGroupsForAccount(tbl, a, QueryLimit)
        available == IF fromDb = <<>> THEN AvailableGroupsPool ELSE fromDb
    IN Take(FillFromPool(FirstUnique(available, <<>>, GroupsPerAccount),
                         AvailableGroupsPool, GroupsPerAccount),
            GroupsPerAccount)

\* add_group written with INSERT OR REPLACE: the stored row gives way
AddGroupReplace(tbl, g, a, d) ==
    LET others(r) == r.link # g
    IN [rows |-> Append(SelectSeq(tbl, others), [link |-> g, account |-> a, date |-> d]),
        ok |-> TRUE]

\* add_group: the INSERT fails on a name (link) that is already stored
AddGroup(tbl, g, a, d) ==
    IF \E k \in 1..Len(tbl) : tbl[k].link = g
    THEN [rows |-> tbl, ok |-> FALSE]
    ELSE [rows |-> Append(tbl, [link |-> g, account |-> a, date |-> d]), ok |-> TRUE]

\* record_daily_join: INSERT OR REPLACE of the row of (account, today)
RecordDailyJoin(dj, a, d, n) == [dj EXCEPT ![a, d] = n]

\* simulate_group_joining, lines 311-314
SimCheck(p) ==
    /\ tpc[p] = "idle"
    /\ \E a \in Accounts :
        /\ seen' = [seen EXCEPT ![p] =
                        IF CheckDailyLimit(dailyJoinsRow, a, today) THEN NoSeen
                        ELSE [count |-> dailyJoinsRow[a, today], date |-> today]]
        /\ tacct' = [tacct EXCEPT ![p] = IF CheckDailyLimit(dailyJoinsRow, a, today) THEN 0 ELSE a]
        /\ tpc' = [tpc EXCEPT ![p] = IF CheckDailyLimit(dailyJoinsRow, a, today) THEN "idle"
                                     ELSE "unique_check"]
    /\ UNCHANGED <<today, groupsTable, dailyJoinsRow, uniqueGroups, joinedGroups>>
    /\ UNCHANGED nonTrackerVars

\* get_unique_groups_for_account, lines 273-276, and simulate_group_joining,
\* lines 321-323: an empty result ends the call without record_daily_join
UniqueCheck(p) ==
    /\ tpc[p] = "unique_check"
    /\ IF CheckDailyLimit(dailyJoinsRow, tacct[p], today)
       THEN /\ tpc' = [tpc EXCEPT ![p] = "idle"]
            /\ tacct' = [tacct EXCEPT ![p] = 0]
            /\ seen' = [seen EXCEPT ![p] = NoSeen]
       ELSE /\ tpc' = [tpc EXCEPT ![p] = "select"]
            /\ seen' = [seen EXCEPT ![p] =
                            [count |-> dailyJoinsRow[tacct[p], today], date |-> today]]
            /\ tacct' = tacct
    /\ UNCHANGED <<today, groupsTable, dailyJoinsRow, uniqueGroups, joinedGroups>>
    /\ UNCHANGED nonTrackerVars

\* get_unique_groups_for_account, lines 278-300
SelectUnique(p) ==
    /\ tpc[p] = "select"
    /\ uniqueGroups' = [uniqueGroups EXCEPT ![p] = GetUniqueGroups(groupsTable, tacct[p])]
    /\ tpc' = [tpc EXCEPT ![p] = "add"]
    /\ UNCHANGED <<today, groupsTable, dailyJoinsRow, tacct, seen, joinedGroups>>
    /\ UNCHANGED nonTrackerVars

\* simulate_group_joining, lines 327-351: one turn of the loop
AddNextGroup(p) ==
    /\ tpc[p] = "add"
    /\ uniqueGroups[p] # <<>>
    /\ LET res == AddGroup(groupsTable, Head(uniqueGroups[p]), tacct[p], today)
       IN /\ groupsTable' = res.rows
          /\ joinedGroups' = [joinedGroups EXCEPT ![p] = IF res.ok THEN @ + 1 ELSE @]
    /\ uniqueGroups' = [uniqueGroups EXCEPT ![p] = Tail(@)]
    /\ UNCHANGED <<today, dailyJoinsRow, tpc, tacct, seen>>
    /\ UNCHANGED nonTrackerVars

\* simulate_group_joining, lines 353-357
RecordJoins(p) ==
    /\ tpc[p] = "add"
    /\ uniqueGroups[p] = <<>>
    /\ dailyJoinsRow' = RecordDailyJoin(dailyJoinsRow, tacct[p], today, joinedGroups[p])
    /\ tpc' = [tpc EXCEPT ![p] = "idle"]
    /\ tacct' = [tacct EXCEPT ![p] = 0]
    /\ seen' = [seen EXCEPT ![p] = NoSeen]
    /\ joinedGroups' = [joinedGroups EXCEPT ![p] = 0]
    /\ UNCHANGED <<today, groupsTable, uniqueGroups>>
    /\ UNCHANGED nonTrackerVars

\* the date changes; the processes read it anew at every use
Midnight ==
    /\ today < MaxDays
    /\ today' = today + 1
    /\ UNCHANGED <<groupsTable, dailyJoinsRow, tpc, tacct, seen, uniqueGroups, joinedGroups>>
    /\ UNCHANGED nonTrackerVars

\* GroupTracker.record_daily_join called by a scraper with the number of
\* groups its run has joined (improved_daily_scraper.py line 357,
\* real_universal_scraper.py line 284; both open telegram_groups_tracker.db)
TrackerRecordDailyJoin ==
    /\ \E a \in Accounts, n \in 0..GroupsPerAccount :
        dailyJoinsRow' = RecordDailyJoin(dailyJoinsRow, a, today, n)
    /\ UNCHANGED <<today, groupsTable, tpc, tacct, seen, uniqueGroups, joinedGroups>>
    /\ UNCHANGED nonTrackerVars

\* the operations on table daily_joins
NextQuota ==
    \/ Midnight
    \/ TrackerRecordDailyJoin

NextTracker ==
    \/ Midnight
    \/ \E p \in Procs :
        \/ SimCheck(p)
        \/ UniqueCheck(p)
        \/ SelectUnique(p)
        \/ AddNextGroup(p)
        \/ RecordJoins(p)

(***************************************************************************)
(* The catalog of groups: table groups of DatabaseRepository, filled by    *)
(* create_group (legacy repository) or by                                  *)
(* GroupManager._load_groups_to_database (telegram-database-v2), and the   *)
(* order select_groups_to_join gives the groups it is handed.              *)
(* database/schema.sql is not among the sources: groups is modelled with   *)
(* link unique, the natural key the specification names.                   *)
(***************************************************************************)
NCatalogLinks == 3
MaxCatalogIds == 4

CatalogLinks == 1..NCatalogLinks
Priorities == {"high", "medium", "low"}

\* credibility scores of the groups handed to create_group
CatalogScores == {0, 5}

InitCatalog ==
    /\ groupsCatalog = <<>>
    /\ catalogNextId = 1
    /\ pgScore = [l \in AllLinks |-> [num |-> 0, den |-> 1]]

\* the stored row r makes an INSERT INTO groups of link conflict
GroupLinkConflict(r, link) == r.link = link

\* legacy create_group: INSERT OR REPLACE with a fresh uuid as id
CreateGroupLegacy(cat, id, g) ==
    LET keep(r) == ~GroupLinkConflict(r, g.link)
    IN Append(SelectSeq(cat, keep),
              [id |-> id, link |-> g.link, priority |-> g.priority,
               credibility |-> g.credibility])

\* GroupManager._find_group_by_link
FindGroupByLink(cat, link) == \E k \in 1..Len(cat) : cat[k].link = link

\* v2 create_group: a plain INSERT; group_data['id'] raises KeyError when the
\* group of the file has no id, and the call answers False
CreateGroupV2(cat, id, g, hasId) ==
    IF hasId
    THEN Append(cat, [id |-> id, link |-> g.link, priority |-> g.priority,
                      credibility |-> g.credibility])
    ELSE cat

\* _load_groups_to_database, one turn of its loop
LoadGroupToDatabase(cat, id, g, hasId) ==
    IF FindGroupByLink(cat, g.link) THEN cat ELSE CreateGroupV2(cat, id, g, hasId)

\* one group of the universal list is stored through the deployed repository
CreateGroup ==
    /\ catalogNextId <= MaxCatalogIds
    /\ \E link \in CatalogLinks, pr \in Priorities, cr \in CatalogScores, hasId \in BOOLEAN :
        LET g == [link |-> link, priority |-> pr, credibility |-> cr]
        IN groupsCatalog' =
              IF repo = "legacy" THEN CreateGroupLegacy(groupsCatalog, catalogNextId, g)
              ELSE LoadGroupToDatabase(groupsCatalog, catalogNextId, g, hasId)
    /\ catalogNextId' = catalogNextId + 1
    /\ UNCHANGED pgScore
    /\ UNCHANGED nonCatalogVars

\* settings.PRIORITY_WEIGHTS (in tenths) and priority_weights.get(priority, 0.5)
PriorityWeight(pr) ==
    CASE pr = "high"   -> 9
      [] pr = "medium" -> 7
      [] OTHER         -> 5

\* a sort key that looks at the priority only
SortKeyGreaterByPriority(g, h) == PriorityWeight(g.priority) > PriorityWeight(h.priority)

\* the key of select_groups_to_join, (weight, credibility_score), compared
\* as tuples
SortKeyGreater(g, h) ==
    \/ PriorityWeight(g.priority) > PriorityWeight(h.priority)
    \/ /\ PriorityWeight(g.priority) = PriorityWeight(h.priority)
       /\ g.credibility > h.credibility

RECURSIVE InsertByKey(_, _)
\* g goes behind every group whose key is not smaller than its own
InsertByKey(sorted, g) ==
    IF sorted = <<>> THEN <<g>>
    ELSE IF SortKeyGreater(g, Head(sorted)) THEN <<g>> \o sorted
    ELSE <<Head(sorted)>> \o InsertByKey(Tail(sorted), g)

RECURSIVE SortInto(_, _)
SortInto(sorted, gs) ==
    IF gs = <<>> THEN sorted ELSE SortInto(InsertByKey(sorted, Head(gs)), Tail(gs))

\* sorted(available_groups, key = ..., reverse = True): stable
SortedGroups(gs) == SortInto(<<>>, gs)

\* get_available_groups over the catalog: get_all_groups without the groups
\* of get_all_assigned_group_ids
CatalogAvailable(cat, rows) ==
    LET free(g) == g.id \notin GetAllAssignedGroupIds(rows)
    IN SelectSeq(cat, free)

(***************************************************************************)
(* Credibility of the rows of programming_groups (database/database.py),   *)
(* written by JobCrawler._score_and_filter_groups.  A score is a fraction  *)
(* num / den.  The table has no constraint on credibility_score.           *)
(***************************************************************************)
\* get_messages(group['id'], limit=100) and MIN_MESSAGES_FOR_SCORING = 100:
\* a group is scored on exactly 100 messages, which the model scales down
ScoredMessages == 4

\* the 10.0 of min(10.0, ...) in _score_and_filter_groups
MaxCredibility == 10

\* the scores a caller passes to update_group_credibility
PassedScores == {[num |-> -1, den |-> 1], [num |-> 5, den |-> 1], [num |-> 11, den |-> 1]}

\* lines 280-290: 5 per job message over len(messages), plus 3 times the
\* share of job messages, at most 10.0
GroupCredibility(jobMessages, n) ==
    LET raw == [num |-> 5 * jobMessages + 3 * jobMessages, den |-> n]
    IN IF jobMessages > 0
       THEN IF raw.num > MaxCredibility * raw.den
            THEN [num |-> MaxCredibility, den |-> 1] ELSE raw
       ELSE [num |-> 0, den |-> 1]

\* update_group_credibility: UPDATE programming_groups SET credibility_score
UpdateGroupCredibility(pg, scores, gid, score) ==
    IF pg[gid] # 0 THEN [scores EXCEPT ![gid] = score] ELSE scores

\* insert_programming_group called for a joined group (crawler.py line 169)
StoreProgrammingGroup ==
    /\ \E l \in AllLinks, a \in Accounts :
        programmingGroups' = InsertProgrammingGroup(programmingGroups, l, a).rows
    /\ UNCHANGED <<universalGroups, dailyJoins, crawl, accountGroupAssignments>>
    /\ UNCHANGED nonManagerVars

\* _score_and_filter_groups, one turn of its loop
ScoreAndFilterGroups ==
    /\ \E l \in AllLinks, jobMessages \in 0..ScoredMessages :
        /\ programmingGroups[l] # 0
        /\ pgScore' = UpdateGroupCredibility(programmingGroups, pgScore, l,
                                             GroupCredibility(jobMessages, ScoredMessages))
    /\ UNCHANGED <<groupsCatalog, catalogNextId>>
    /\ UNCHANGED nonCatalogVars

\* DatabaseManager.update_group_credibility called with a score
DbUpdateGroupCredibility ==
    /\ \E l \in AllLinks, score \in PassedScores :
        pgScore' = UpdateGroupCredibility(programmingGroups, pgScore, l, score)
    /\ UNCHANGED <<groupsCatalog, catalogNextId>>
    /\ UNCHANGED nonCatalogVars

NextCatalog == CreateGroup

NextScoring ==
    \/ StoreProgrammingGroup
    \/ ScoreAndFilterGroups
    \/ DbUpdateGroupCredibility

(***************************************************************************)
(* Message classification and channel analysis.                            *)
(*                                                                         *)
(* A text is a tuple of one-character strings, so that the substring tests *)
(* of the source are computed and not assumed.  str.lower() is modelled on *)
(* the letters A-Z; the other characters of the texts below are their own  *)
(* lower case.                                                             *)
(***************************************************************************)
MaxMessages == 12

UpperCase == <<"A", "B", "C", "D", "E", "F", "G", "H", "I", "J", "K", "L", "M",
               "N", "O", "P", "Q", "R", "S", "T", "U", "V", "W", "X", "Y", "Z">>
LowerCase == <<"a", "b", "c", "d", "e", "f", "g", "h", "i", "j", "k", "l", "m",
               "n", "o", "p", "q", "r", "s", "t", "u", "v", "w", "x", "y", "z">>
Lower(c) ==
    IF \E i \in 1..Len(UpperCase) : UpperCase[i] = c
    THEN LowerCase[CHOOSE i \in 1..Len(UpperCase) : UpperCase[i] = c]
    ELSE c
TextLower(text) == [i \in 1..Len(text) |-> Lower(text[i])]

\* keyword in text_lower
Contains(text, keyword) ==
    \E i \in 0..(Len(text) - Len(keyword)) :
        \A j \in 1..Len(keyword) : text[i + j] = keyword[j]

(***************************************************************************)
(* JobMessageAnalyzer.job_keywords; daily_job_scraper.py and               *)
(* real_daily_scraper.py carry the same four lists.                        *)
(***************************************************************************)
job_keywords ==
    [roles |->
        <<<<"d", "e", "v", "e", "l", "o", "p", "e", "r">>,
          <<"e", "n", "g", "i", "n", "e", "e", "r">>,
          <<"p", "r", "o", "g", "r", "a", "m", "m", "e", "r">>,
          <<"c", "o", "d", "e", "r">>,
          <<"a", "r", "c", "h", "i", "t", "e", "c", "t">>,
          <<"a", "n", "a", "l", "y", "s", "t">>,
          <<"d", "e", "s", "i", "g", "n", "e", "r">>,
          <<"m", "a", "n", "a", "g", "e", "r">>, <<"l", "e", "a", "d">>,
          <<"s", "e", "n", "i", "o", "r">>, <<"j", "u", "n", "i", "o", "r">>,
          <<"i", "n", "t", "e", "r", "n">>,
          <<"f", "r", "e", "s", "h", "e", "r">>,
          <<"e", "x", "p", "e", "r", "i", "e", "n", "c", "e", "d">>,
          <<"f", "u", "l", "l", "s", "t", "a", "c", "k">>,
          <<"f", "r", "o", "n", "t", "e", "n", "d">>,
          <<"b", "a", "c", "k", "e", "n", "d">>,
          <<"d", "e", "v", "o", "p", "s">>, <<"q", "a">>,
          <<"t", "e", "s", "t", "e", "r">>,
          <<"p", "r", "o", "d", "u", "c", "t", " ", "m", "a", "n", "a", "g", "e", "r">>,
          <<"p", "r", "o", "j", "e", "c", "t", " ", "m", "a", "n", "a", "g", "e", "r">>,
          <<"s", "c", "r", "u", "m", " ", "m", "a", "s", "t", "e", "r">>,
          <<"t", "e", "c", "h", " ", "l", "e", "a", "d">>,
          <<"t", "e", "a", "m", " ", "l", "e", "a", "d">>>>,
     technologies |->
        <<<<"p", "y", "t", "h", "o", "n">>, <<"j", "a", "v", "a">>,
          <<"j", "a", "v", "a", "s", "c", "r", "i", "p", "t">>,
          <<"r", "e", "a", "c", "t">>, <<"a", "n", "g", "u", "l", "a", "r">>,
          <<"v", "u", "e">>, <<"n", "o", "d", "e">>,
          <<"d", "j", "a", "n", "g", "o">>, <<"f", "l", "a", "s", "k">>,
          <<"s", "p", "r", "i", "n", "g">>, <<"h", "t", "m", "l">>,
          <<"c", "s", "s">>, <<"s", "q", "l">>,
          <<"m", "o", "n", "g", "o", "d", "b">>,
          <<"p", "o", "s", "t", "g", "r", "e", "s", "q", "l">>,
          <<"m", "y", "s", "q", "l">>, <<"a", "w", "s">>,
          <<"a", "z", "u", "r", "e">>, <<"d", "o", "c", "k", "e", "r">>,
          <<"k", "u", "b", "e", "r", "n", "e", "t", "e", "s">>,
          <<"g", "i", "t">>, <<"l", "i", "n", "u", "x">>,
          <<"a", "n", "d", "r", "o", "i", "d">>, <<"i", "o", "s">>,
          <<"f", "l", "u", "t", "t", "e", "r">>,
          <<"r", "e", "a", "c", "t", " ", "n", "a", "t", "i", "v", "e">>,
          <<"m", "a", "c", "h", "i", "n", "e", " ", "l", "e", "a", "r", "n", "i", "n", "g">>,
          <<"d", "a", "t", "a", " ", "s", "c", "i", "e", "n", "c", "e">>,
          <<"a", "i">>>>,
     job_indicators |->
        <<<<"h", "i", "r", "i", "n", "g">>, <<"j", "o", "b">>,
          <<"v", "a", "c", "a", "n", "c", "y">>,
          <<"p", "o", "s", "i", "t", "i", "o", "n">>,
          <<"o", "p", "e", "n", "i", "n", "g">>,
          <<"o", "p", "p", "o", "r", "t", "u", "n", "i", "t", "y">>,
          <<"c", "a", "r", "e", "e", "r">>,
          <<"e", "m", "p", "l", "o", "y", "m", "e", "n", "t">>,
          <<"w", "o", "r", "k">>, <<"s", "a", "l", "a", "r", "y">>,
          <<"c", "t", "c">>, <<"l", "p", "a">>,
          <<"e", "x", "p", "e", "r", "i", "e", "n", "c", "e">>,
          <<"y", "e", "a", "r", "s">>, <<"a", "p", "p", "l", "y">>,
          <<"r", "e", "s", "u", "m", "e">>, <<"c", "v">>,
          <<"i", "n", "t", "e", "r", "v", "i", "e", "w">>,
          <<"r", "e", "c", "r", "u", "i", "t", "m", "e", "n", "t">>,
          <<"h", "r">>,
          <<"h", "u", "m", "a", "n", " ", "r", "e", "s", "o", "u", "r", "c", "e">>,
          <<"j", "o", "i", "n", " ", "o", "u", "r", " ", "t", "e", "a", "m">>,
          <<"w", "e", " ", "a", "r", "e", " ", "h", "i", "r", "i", "n", "g">>,
          <<"j", "o", "b", " ", "a", "l", "e", "r", "t">>,
          <<"j", "o", "b", " ", "o", "p", "p", "o", "r", "t", "u", "n", "i", "t", "y">>>>,
     location_indicators |->
        <<<<"b", "a", "n", "g", "a", "l", "o", "r", "e">>,
          <<"m", "u", "m", "b", "a", "i">>, <<"d", "e", "l", "h", "i">>,
          <<"h", "y", "d", "e", "r", "a", "b", "a", "d">>,
          <<"p", "u", "n", "e">>, <<"c", "h", "e", "n", "n", "a", "i">>,
          <<"k", "o", "l", "k", "a", "t", "a">>,
          <<"g", "u", "r", "g", "a", "o", "n">>, <<"n", "o", "i", "d", "a">>,
          <<"r", "e", "m", "o", "t", "e">>,
          <<"w", "o", "r", "k", " ", "f", "r", "o", "m", " ", "h", "o", "m", "e">>,
          <<"w", "f", "h">>, <<"o", "n", "s", "i", "t", "e">>,
          <<"h", "y", "b", "r", "i", "d">>, <<"o", "f", "f", "i", "c", "e">>,
          <<"l", "o", "c", "a", "t", "i", "o", "n">>>>]

\* sum(1 for keyword in keywords if keyword in text_lower)
CategoryMatches(text, keywords) ==
    Cardinality({k \in 1..Len(keywords) : Contains(text, keywords[k])})

NoMatches ==
    [roles |-> 0, technologies |-> 0, job_indicators |-> 0,
     location_indicators |-> 0]

(***************************************************************************)
(* The weights are 3, 2, 1.5 and 1.  Scores are kept as twice their value, *)
(* so that the arithmetic is exact on integers; a confidence is the        *)
(* fraction num / den.                                                     *)
(***************************************************************************)
WeightedScoreUniform(m) ==
    m.job_indicators * 2 + m.roles * 2 + m.technologies * 2
        + m.location_indicators * 2

WeightedScore(m) ==
    m.job_indicators * 6 + m.roles * 4 + m.technologies * 3
        + m.location_indicators * 2

MaxPossibleScore ==
    Len(job_keywords.job_indicators) * 6 + Len(job_keywords.roles) * 4
        + Len(job_keywords.technologies) * 3
        + Len(job_keywords.location_indicators) * 2

Min(a, b) == IF a < b THEN a ELSE b

ConfidenceSmoothed(weighted) ==
    [num |-> Min(weighted + 1, MaxPossibleScore + 1),
     den |-> MaxPossibleScore + 1]

\* confidence = min(weighted_score / max_possible_score, 1.0)
Confidence(weighted) ==
    [num |-> Min(weighted, MaxPossibleScore), den |-> MaxPossibleScore]

\* c > n / d for a fraction c
Exceeds(c, n, d) == c.num * d > n * c.den

\* (confidence > 0.1 and job indicators matched) or (confidence > 0.15)
IsJobRule(confidence, indicators) ==
    \/ Exceeds(confidence, 1, 10) /\ indicators > 0
    \/ Exceeds(confidence, 15, 100)

(***************************************************************************)
(* JobMessageAnalyzer.is_job_message; is_job_message of                    *)
(* daily_job_scraper.py and of real_daily_scraper.py are the same code.    *)
(***************************************************************************)
IsJobMessage(message_text) ==
    IF message_text = <<>>
    THEN [is_job |-> FALSE, confidence |-> [num |-> 0, den |-> 1],
          matches |-> NoMatches]
    ELSE LET text_lower == TextLower(message_text)
             category_matches ==
                 [roles |-> CategoryMatches(text_lower, job_keywords.roles),
                  technologies |->
                      CategoryMatches(text_lower, job_keywords.technologies),
                  job_indicators |->
                      CategoryMatches(text_lower, job_keywords.job_indicators),
                  location_indicators |->
                      CategoryMatches(text_lower,
                                      job_keywords.location_indicators)]
             confidence == Confidence(WeightedScore(category_matches))
         IN  [is_job |-> IsJobRule(confidence,
                                   category_matches.job_indicators),
              confidence |-> confidence,
              matches |-> category_matches]

(***************************************************************************)
(* TelegramService._is_job_message and _calculate_job_score: one list of   *)
(* keywords; the weights of _calculate_job_score are kept in tenths, the   *)
(* score is their sum over 5.0, at most 1.0.                               *)
(***************************************************************************)
service_job_keywords ==
    <<<<"j", "o", "b">>, <<"h", "i", "r", "i", "n", "g">>,
      <<"r", "e", "c", "r", "u", "i", "t", "m", "e", "n", "t">>,
      <<"p", "o", "s", "i", "t", "i", "o", "n">>,
      <<"v", "a", "c", "a", "n", "c", "y">>,
      <<"d", "e", "v", "e", "l", "o", "p", "e", "r">>,
      <<"p", "r", "o", "g", "r", "a", "m", "m", "e", "r">>,
      <<"e", "n", "g", "i", "n", "e", "e", "r">>,
      <<"r", "e", "m", "o", "t", "e">>, <<"w", "o", "r", "k">>,
      <<"s", "a", "l", "a", "r", "y">>,
      <<"e", "x", "p", "e", "r", "i", "e", "n", "c", "e">>,
      <<"s", "k", "i", "l", "l", "s">>,
      <<"r", "e", "q", "u", "i", "r", "e", "m", "e", "n", "t", "s">>,
      <<"a", "p", "p", "l", "y">>, <<"c", "v">>,
      <<"r", "e", "s", "u", "m", "e">>,
      <<"i", "n", "t", "e", "r", "v", "i", "e", "w">>>>
service_job_weights ==
    <<8, 9, 9, 7, 8, 8, 8, 7, 6, 5, 7, 6, 6, 6, 8, 7, 7, 8>>

ServiceIsJobMessage(text) ==
    \E k \in 1..Len(service_job_keywords) :
        Contains(TextLower(text), service_job_keywords[k])

RECURSIVE ServiceWeightSum(_, _)
ServiceWeightSum(text_lower, k) ==
    IF k = 0 THEN 0
    ELSE ServiceWeightSum(text_lower, k - 1)
         + (IF Contains(text_lower, service_job_keywords[k])
            THEN service_job_weights[k] ELSE 0)

CalculateJobScore(text) ==
    [num |-> Min(ServiceWeightSum(TextLower(text),
                                  Len(service_job_keywords)), 50),
     den |-> 50]

(***************************************************************************)
(* The message texts the model classifies.                                 *)
(***************************************************************************)
\* ""
EmptyText ==
    <<>>
\* "   "
BlankText ==
    <<" ", " ", " ">>
\* "We are hiring Python developers, 3+ years experience, apply now, salary 10 LPA, Bangalore"
HiringText ==
    <<"W", "e", " ", "a", "r", "e", " ", "h", "i", "r", "i", "n", "g", " ",
      "P", "y", "t", "h", "o", "n", " ", "d", "e", "v", "e", "l", "o", "p",
      "e", "r", "s", ",", " ", "3", "+", " ", "y", "e", "a", "r", "s", " ",
      "e", "x", "p", "e", "r", "i", "e", "n", "c", "e", ",", " ", "a", "p",
      "p", "l", "y", " ", "n", "o", "w", ",", " ", "s", "a", "l", "a", "r",
      "y", " ", "1", "0", " ", "L", "P", "A", ",", " ", "B", "a", "n", "g",
      "a", "l", "o", "r", "e">>
\* "Good morning everyone, nice weather today"
WeatherText ==
    <<"G", "o", "o", "d", " ", "m", "o", "r", "n", "i", "n", "g", " ", "e",
      "v", "e", "r", "y", "o", "n", "e", ",", " ", "n", "i", "c", "e", " ",
      "w", "e", "a", "t", "h", "e", "r", " ", "t", "o", "d", "a", "y">>
\* "work"
WorkText ==
    <<"w", "o", "r", "k">>
\* "Apply"
ApplyText ==
    <<"A", "p", "p", "l", "y">>
\* "senior junior backend frontend fullstack devops coder tester architect, python django flask sql aws docker linux, remote pune"
StackText ==
    <<"s", "e", "n", "i", "o", "r", " ", "j", "u", "n", "i", "o", "r", " ",
      "b", "a", "c", "k", "e", "n", "d", " ", "f", "r", "o", "n", "t", "e",
      "n", "d", " ", "f", "u", "l", "l", "s", "t", "a", "c", "k", " ", "d",
      "e", "v", "o", "p", "s", " ", "c", "o", "d", "e", "r", " ", "t", "e",
      "s", "t", "e", "r", " ", "a", "r", "c", "h", "i", "t", "e", "c", "t",
      ",", " ", "p", "y", "t", "h", "o", "n", " ", "d", "j", "a", "n", "g",
      "o", " ", "f", "l", "a", "s", "k", " ", "s", "q", "l", " ", "a", "w",
      "s", " ", "d", "o", "c", "k", "e", "r", " ", "l", "i", "n", "u", "x",
      ",", " ", "r", "e", "m", "o", "t", "e", " ", "p", "u", "n", "e">>
\* "senior backend frontend fullstack devops coder, python django flask sql aws docker linux, remote pune"
RolesText ==
    <<"s", "e", "n", "i", "o", "r", " ", "b", "a", "c", "k", "e", "n", "d",
      " ", "f", "r", "o", "n", "t", "e", "n", "d", " ", "f", "u", "l", "l",
      "s", "t", "a", "c", "k", " ", "d", "e", "v", "o", "p", "s", " ", "c",
      "o", "d", "e", "r", ",", " ", "p", "y", "t", "h", "o", "n", " ", "d",
      "j", "a", "n", "g", "o", " ", "f", "l", "a", "s", "k", " ", "s", "q",
      "l", " ", "a", "w", "s", " ", "d", "o", "c", "k", "e", "r", " ", "l",
      "i", "n", "u", "x", ",", " ", "r", "e", "m", "o", "t", "e", " ", "p",
      "u", "n", "e">>

SampleTexts ==
    {EmptyText, BlankText, HiringText, WeatherText, WorkText, ApplyText,
     StackText, RolesText}


(***************************************************************************)
(* What each classifier answers for the texts of the model.                *)
(***************************************************************************)
Scored == [t \in SampleTexts |-> IsJobMessage(t)]

(***************************************************************************)
(* The messages of a channel, by their text (the empty text stands for a   *)
(* message without text): k messages with one text followed by n - k       *)
(* messages with another.                                                  *)
(***************************************************************************)
ChannelTexts == {EmptyText, BlankText, HiringText, WeatherText}

MessageLists ==
    UNION {{[i \in 1..n |-> IF i <= k THEN a ELSE b] :
                a \in ChannelTexts, b \in ChannelTexts, k \in 0..n} :
           n \in 0..MaxMessages}

MIN_JOB_MESSAGES == 10
MOCK_MIN_JOB_MESSAGES == 7777
MOCK_TOTAL_MESSAGES == 100
MinJobMessagesArgs == {MIN_JOB_MESSAGES, MIN_JOB_MESSAGES \div 2}
MockJobCounts == 3..20

\* the messages with a text that is_job_message classifies as job messages
JobCount(messages) ==
    Cardinality({k \in 1..Len(messages) :
                    messages[k] # <<>> /\ Scored[messages[k]].is_job})

JobPercentagePerMille(job_count, total_messages) ==
    IF total_messages > 0
    THEN [num |-> job_count * 1000, den |-> total_messages]
    ELSE [num |-> 0, den |-> 1]

\* (job_count / total_messages * 100) if total_messages > 0 else 0.0
JobPercentage(job_count, total_messages) ==
    IF total_messages > 0
    THEN [num |-> job_count * 100, den |-> total_messages]
    ELSE [num |-> 0, den |-> 1]

\* JobMessageAnalyzer.analyze_channel
AnalyzeChannel(messages) ==
    IF messages = <<>>
    THEN [total_messages |-> 0, job_messages |-> 0,
          job_percentage |-> [num |-> 0, den |-> 1]]
    ELSE [total_messages |-> Len(messages),
          job_messages |-> JobCount(messages),
          job_percentage |-> JobPercentage(JobCount(messages), Len(messages))]

(***************************************************************************)
(* returned is what the last call returned: the verdict on one message, or *)
(* the result of analysing one channel.  fetched is the number of messages *)
(* the call was given and scored_jobs the number of them is_job_message    *)
(* accepted during the call.                                               *)
(***************************************************************************)
NoReturn ==
    [call |-> "none", text |-> <<>>, is_job |-> FALSE,
     confidence |-> [num |-> 0, den |-> 1], matches |-> NoMatches,
     total_messages |-> 0, job_messages |-> 0,
     job_percentage |-> [num |-> 0, den |-> 1],
     min_job_messages |-> 0, is_high_value |-> FALSE,
     fetched |-> 0, scored_jobs |-> 0]

InitAnalyzer == returned = NoReturn

\* a classifier that answers a repeated call from what it answered before
IsJobMessageCallCached ==
    /\ \E t \in SampleTexts :
          returned' =
              IF returned.call = "is_job_message"
              THEN [returned EXCEPT !.text = t]
              ELSE [NoReturn EXCEPT !.call = "is_job_message",
                                    !.text = t,
                                    !.is_job = Scored[t].is_job,
                                    !.confidence = Scored[t].confidence,
                                    !.matches = Scored[t].matches]
    /\ UNCHANGED nonAnalyzerVars

\* JobMessageAnalyzer.is_job_message(message_text)
IsJobMessageCall ==
    /\ \E t \in SampleTexts :
          returned' = [NoReturn EXCEPT !.call = "is_job_message",
                                       !.text = t,
                                       !.is_job = Scored[t].is_job,
                                       !.confidence = Scored[t].confidence,
                                       !.matches = Scored[t].matches]
    /\ UNCHANGED nonAnalyzerVars

(***************************************************************************)
(* TelegramService.get_group_messages, for one message: only a message     *)
(* with a text is kept, with is_job_message and job_score.                 *)
(***************************************************************************)
ServiceGetMessage ==
    /\ \E t \in SampleTexts \ {<<>>} :
          returned' = [NoReturn EXCEPT !.call = "get_group_messages",
                                       !.text = t,
                                       !.is_job = ServiceIsJobMessage(t),
                                       !.confidence = CalculateJobScore(t)]
    /\ UNCHANGED nonAnalyzerVars

(***************************************************************************)
(* JobMessageAnalyzer.analyze_all_channels over one channel: the channel   *)
(* is in the returned list exactly when it is appended to                  *)
(* high_value_channels.                                                    *)
(***************************************************************************)
AnalyzeAllChannels ==
    /\ \E messages \in MessageLists, min_job_messages \in MinJobMessagesArgs :
          LET stats == AnalyzeChannel(messages)
          IN  returned' =
                  [NoReturn EXCEPT
                      !.call = "analyze_all_channels",
                      !.total_messages = stats.total_messages,
                      !.job_messages = stats.job_messages,
                      !.job_percentage = stats.job_percentage,
                      !.min_job_messages = min_job_messages,
                      !.is_high_value =
                          stats.job_messages >= min_job_messages,
                      !.fetched = Len(messages),
                      !.scored_jobs = JobCount(messages)]
    /\ UNCHANGED nonAnalyzerVars

\* RealDailyJobScraper.analyze_group_messages
AnalyzeGroupMessages ==
    /\ \E messages \in MessageLists :
          LET job_count == JobCount(messages)
              total_messages == Len(messages)
          IN  returned' =
                  [NoReturn EXCEPT
                      !.call = "analyze_group_messages",
                      !.total_messages = total_messages,
                      !.job_messages = job_count,
                      !.job_percentage =
                          JobPercentage(job_count, total_messages),
                      !.min_job_messages = MIN_JOB_MESSAGES,
                      !.is_high_value = job_count >= MIN_JOB_MESSAGES,
                      !.fetched = Len(messages),
                      !.scored_jobs = job_count]
    /\ UNCHANGED nonAnalyzerVars

(***************************************************************************)
(* MockDailyJobScraper.simulate_group_joining, for one group: job_count is *)
(* random.randint(3, 20) out of 100 messages, and the threshold is the     *)
(* min_job_messages that __init__ sets.                                    *)
(***************************************************************************)
SimulateGroupJoining ==
    /\ \E job_count \in MockJobCounts :
          returned' =
              [NoReturn EXCEPT
                  !.call = "simulate_group_joining",
                  !.total_messages = MOCK_TOTAL_MESSAGES,
                  !.job_messages = job_count,
                  !.job_percentage =
                      [num |-> job_count * 100, den |-> MOCK_TOTAL_MESSAGES],
                  !.min_job_messages = MOCK_MIN_JOB_MESSAGES,
                  !.is_high_value = job_count >= MOCK_MIN_JOB_MESSAGES]
    /\ UNCHANGED nonAnalyzerVars

(***************************************************************************)
(* ImprovedDailyJobScraper.simulate_group_joining, for one group, and the  *)
(* same lines of assign_unique_groups_to_accounts                          *)
(* (perfect_unique_scraper.py) and of assign_groups_to_accounts            *)
(* (daily_40_groups_scraper.py): no message is fetched and is_job_message  *)
(* is not called; job_count is random.randint(3, 20), total_messages is    *)
(* 100, and the threshold is 10.  The record is what add_group stores.     *)
(***************************************************************************)
SimulateJobCounts ==
    /\ \E job_count \in MockJobCounts :
          returned' =
              [NoReturn EXCEPT
                  !.call = "add_group",
                  !.total_messages = MOCK_TOTAL_MESSAGES,
                  !.job_messages = job_count,
                  !.job_percentage =
                      [num |-> job_count * 100, den |-> MOCK_TOTAL_MESSAGES],
                  !.min_job_messages = MIN_JOB_MESSAGES,
                  !.is_high_value = job_count >= MIN_JOB_MESSAGES]
    /\ UNCHANGED nonAnalyzerVars

NextAnalyzer ==
    \/ IsJobMessageCall
    \/ ServiceGetMessage
    \/ AnalyzeAllChannels
    \/ AnalyzeGroupMessages
    \/ SimulateGroupJoining
    \/ SimulateJobCounts

(***************************************************************************)
(* Specifications.                                                         *)
(***************************************************************************)
Init ==
    InitEngine /\ InitManager /\ InitTracker /\ InitCatalog /\ InitAnalyzer
Next == NextEngine
Spec == Init /\ [][Next]_vars

InitManagerOnly ==
    /\ InitEngine /\ repo = "v2" /\ InitManager /\ InitTracker
    /\ InitCatalog /\ InitAnalyzer
SpecManager == InitManagerOnly /\ [][NextManager]_vars

SpecTracker == InitManagerOnly /\ [][NextTracker]_vars

SpecCrawler == InitManagerOnly /\ [][NextCrawler]_vars

SpecHistory == Init /\ [][NextHistory]_vars

SpecQuota == InitManagerOnly /\ [][NextQuota]_vars

SpecCatalog == Init /\ [][NextCatalog]_vars

SpecScoring == InitManagerOnly /\ [][NextScoring]_vars
SpecAnalyzer == InitManagerOnly /\ [][NextAnalyzer]_vars

\* is_job_message called between the operations on table daily_joins
NextClassifier ==
    \/ TrackerRecordDailyJoin
    \/ IsJobMessageCall
SpecClassifier == InitManagerOnly /\ [][NextClassifier]_vars

\* one manager per process over a day: groups are handed out and the daily
\* reset (main.py, schedule_daily_reset) runs between the calls
NextReset ==
    \E i \in Instances :
        \/ \E a \in Accounts, limit \in Limits : GetGroupsForAccount(i, a, limit)
        \/ ResetDailyJoins(i)
SpecReset == InitManagerOnly /\ [][NextReset]_vars

(***************************************************************************)
(* Claims about the assignment engine, checked under Spec.                 *)
(***************************************************************************)
ActiveRows(g) == {x \in assignments : x.group = g /\ x.status = "active"}

HistoryCount(a, g, action) ==
    Cardinality({i \in 1..Len(history) :
                    history[i] = [account |-> a, group |-> g, action |-> action]})

C4_ExactlyOneBinds ==
    \A p, q \in Procs :
        (/\ p # q
         /\ pc[p] = "pa_join" /\ pc[q] = "pa_join"
         /\ toJoin[p] = <<>> /\ toJoin[q] = <<>>
         /\ acct[p] # acct[q]
         /\ Len(snap[p]) = 1 /\ snap[q] = snap[p])
        => Cardinality({x \in ActiveRows(snap[p][1]) :
                           x.account \in {acct[p], acct[q]}}) = 1

\* C5: a bind is all-or-nothing: every assignment row has the history entry
\* "joined" of its pair, and every such entry has its row.
C5_AllOrNothing ==
    \A a \in Accounts, g \in Groups :
        (GetAssignment(assignments, a, g) # {}) <=> (HistoryCount(a, g, "joined") > 0)

\* C6: when the group was actively held by another account at the moment
\* create_assignment ran (the uniqueness check fails), nothing written for
\* the candidate persists.
C6_ConflictWritesNothing ==
    \A p \in Procs :
        (pc[p] \in {"returned", "pa_join"} /\ attempt[p].conflict)
        => ~ \E x \in assignments : x.id = attempt[p].rowId

\* C7: after release has been called twice in a row for a pair that was
\* actively held, the history holds exactly one entry "left" of the pair
\* and the second call returned success.
C7_IdempotentRelease ==
    (rel.calls = 2 /\ \A p \in Procs : pc[p] # "unassign_log")
    => (HistoryCount(rel.account, rel.group, "left") = 1 /\ rel.ok)

\* C8: a row that is released never becomes active again, and a row that
\* becomes active is a new row with an id no earlier row had.
C8_ReleasedIsTerminal ==
    [][/\ \A x \in assignments : x.status = "left" =>
            \A y \in assignments' : y.id = x.id => y.status = "left"
       /\ \A y \in assignments' : (y.status = "active" /\ y \notin assignments) =>
            \A x \in assignments : x.id # y.id]_vars

\* C8 witness: a group released by one account has been bound again: its
\* released row and a newer active row are both in the store.
C8_Witness ==
    \E x, y \in assignments :
        x.group = y.group /\ x.status = "left" /\ y.status = "active" /\ x.id < y.id

(***************************************************************************)
(* Claims about UniversalGroupManager, checked under SpecManager.          *)
(***************************************************************************)
RECURSIVE TotalHanded(_, _)
\* the number of groups an instance has handed out to the accounts 1..n
TotalHanded(joins, n) == IF n = 0 THEN 0 ELSE Len(joins[n]) + TotalHanded(joins, n - 1)

DistinctHanded(joins) == UNION {Range(joins[a]) : a \in Accounts}

\* C9: a group link handed to one account is never handed to another
\* account by a second instance of the manager on the same day.
C9_HeldAcrossInstances ==
    \A i, j \in Instances, a, b \in Accounts :
        (i # j /\ a # b)
        => Range(dailyJoins[i].joins[a]) \cap Range(dailyJoins[j].joins[b]) = {}

\* C10: for the calls made on one manager during one day, the number of
\* distinct links handed out equals the total number of groups handed out.
C10_DistinctEqualsTotal ==
    \A i \in Instances :
        Cardinality(DistinctHanded(dailyJoins[i].joins))
            = TotalHanded(dailyJoins[i].joins, NAccounts)

(***************************************************************************)
(* Claims about GroupTracker and simulate_group_joining, checked under     *)
(* SpecTracker.                                                            *)
(***************************************************************************)
\* the rows of table groups joined by account a on date d
JoinedOn(a, d) ==
    {k \in 1..Len(groupsTable) : groupsTable[k].account = a /\ groupsTable[k].date = d}

C3_LastUnitOnce ==
    \A p, q \in Procs :
        (/\ p # q
         /\ tacct[p] # 0 /\ tacct[p] = tacct[q]
         /\ seen[p].date = seen[q].date
         /\ seen[p].count = DailyLimit - 1)
        => ~ (/\ seen[q].count = DailyLimit - 1
              /\ tpc[p] \in {"select", "add"}
              /\ tpc[q] \in {"select", "add"})

(***************************************************************************)
(* Claims about the crawler's join loop, checked under SpecCrawler.        *)
(***************************************************************************)
\* C11: when the Telegram join of a group has failed, the manager does not
\* record the group as joined by the account, so it stays available to
\* the other accounts.
C11_FailedJoinNotRecorded ==
    \A i \in Instances :
        crawl[i].todo = <<>>
        => \A l \in crawl[i].failed :
              l \notin Range(dailyJoins[i].joins[crawl[i].account])

(***************************************************************************)
(* Claims about errors and frame conditions of the assignment engine.      *)
(***************************************************************************)
\* C12: when the store call of a bind has failed, the failure reaches the
\* caller of the engine as an error and not as an ordinary return value.
C12_StoreFailureSurfaces ==
    \A p \in Procs :
        (pc[p] \in {"returned", "pa_join"} /\ attempt[p].storeError)
        => attempt[p].raised

\* C14: a release by an account that has no active assignment of the group
\* reports success and changes neither the assignments nor the history.
C14_ReleaseWithoutHold ==
    [][\A p \in Procs :
          (/\ pc[p] = "unassign_update"
           /\ pc'[p] # "unassign_update"
           /\ ~ \E x \in assignments :
                   x.account = acct[p] /\ x.group = grp[p] /\ x.status = "active")
          => (assignments' = assignments /\ history' = history /\ ret'[p] = TRUE)]_vars

\* C20: the history after any step is the history before it with zero or
\* more entries appended; no entry is modified or removed.
C20_HistoryAppendOnly ==
    [][/\ Len(history') >= Len(history)
       /\ SubSeq(history', 1, Len(history)) = history]_vars

\* C20 witness: entries have been written one after the other, the later
\* one for the pair of the earlier one.
C20_Witness ==
    /\ Len(history) = MaxHistory
    /\ history[1].account = history[2].account
    /\ history[1].group = history[2].group

(***************************************************************************)
(* Claims about the daily quota of UniversalGroupManager, checked under    *)
(* SpecManager.                                                            *)
(***************************************************************************)
\* the step is a call get_groups_for_account(a, limit) on instance i
IsGetGroupsCall(i, a, limit) ==
    dailyJoins'[i].joins[a] =
        dailyJoins[i].joins[a]
            \o Links(SelectedGroups(universalGroups, dailyJoins[i].joins, a, limit))

\* the free groups a call for account a on instance i can choose from
FreeFor(i, a) == Len(SelectedGroups(universalGroups, dailyJoins[i].joins, a, MaxList))

\* the number of groups the step has added to the joins of account a
Handed(i, a) == Len(dailyJoins'[i].joins[a]) - Len(dailyJoins[i].joins[a])

\* C15: an account with remaining quota r that asks for more than r groups
\* while at least r are free is handed exactly r groups, and its remaining
\* quota is 0 afterwards.
C15_BindsExactlyRemaining ==
    [][\A i \in Instances, a \in Accounts, limit \in Limits :
          LET r == GetAccountStatus(dailyJoins[i], a).remaining
          IN (/\ IsGetGroupsCall(i, a, limit)
              /\ r > 0 /\ r < limit
              /\ FreeFor(i, a) >= r)
             => (/\ Handed(i, a) = r
                 /\ GetAccountStatus(dailyJoins'[i], a).remaining = 0)]_vars

\* C16: one call never hands an account more than min(limit, remaining)
\* groups, and hands none when that number is 0 or less.
C16_AtMostMinLimitRemaining ==
    [][\A i \in Instances, a \in Accounts, limit \in Limits :
          LET r == GetAccountStatus(dailyJoins[i], a).remaining
              n == IF limit < r THEN limit ELSE r
          IN IsGetGroupsCall(i, a, limit)
             => (Handed(i, a) <= n /\ (n <= 0 => Handed(i, a) = 0))]_vars

\* C17: for every account, the number of groups acquired on one date never
\* exceeds the daily quota.
C17_AcquiredWithinQuota ==
    \A i \in Instances, a \in Accounts :
        GetAccountStatus(dailyJoins[i], a).joined_today <= StatusQuota

TrackerRemaining(dj, a, d) == IF dj[a, d] = NoRow THEN DailyLimit ELSE DailyLimit - dj[a, d]

\* C18: a consume of n units for an (account, date) whose remaining quota is
\* less than n leaves the counter of that (account, date) unchanged.
C18_OverdrawLeavesCounter ==
    [][\A a \in Accounts, n \in 0..GroupsPerAccount :
          (/\ dailyJoinsRow' = RecordDailyJoin(dailyJoinsRow, a, today, n)
           /\ n > TrackerRemaining(dailyJoinsRow, a, today))
          => dailyJoinsRow'[a, today] = dailyJoinsRow[a, today]]_vars

(***************************************************************************)
(* Claims about the list of available groups and the selection from it.    *)
(***************************************************************************)
\* C21: the list of available groups holds no group that is held: every
\* group get_available_groups_for_account returns has no row in the table
\* of joined groups.
C21_AvailableAreFree ==
    \A a \in Accounts :
        \A l \in Range(GetAvailableGroupsForAccount(groupsTable, a, QueryLimit)) :
            ~ \E k \in 1..Len(groupsTable) : groupsTable[k].link = l

\* C23: the groups process_account goes on to join are the first n groups
\* of the available list, n being the daily join limit or the length of
\* the list if that is smaller.
C23_FirstNAttempted ==
    [][\A p \in Procs :
          (pc[p] = "pa_select" /\ pc'[p] = "pa_join")
          => toJoin'[p] = Take(snap[p], DAILY_JOIN_LIMIT)]_vars

(***************************************************************************)
(* Claims about the catalog of groups, checked under SpecCatalog and       *)
(* SpecScoring.                                                            *)
(***************************************************************************)
\* the rows of the catalog that carry link l
RowsOfLink(cat, l) == {cat[k] : k \in {j \in 1..Len(cat) : cat[j].link = l}}

\* C22: the available groups are put in the order high before medium
\* before low, then credibility score descending, and groups equal on both
\* keep the order in which they were stored.
C22_OrderedAndStable ==
    LET avail == CatalogAvailable(groupsCatalog, assignments)
        s == SortedGroups(avail)
        pos(g) == CHOOSE k \in 1..Len(avail) : avail[k] = g
    IN /\ Len(s) = Len(avail)
       /\ Range(s) = Range(avail)
       /\ \A j, k \in 1..Len(s) :
             j < k =>
                /\ PriorityOrder(s[j].priority) >= PriorityOrder(s[k].priority)
                /\ s[j].priority = s[k].priority
                      => s[j].credibility >= s[k].credibility
                /\ (s[j].priority = s[k].priority /\ s[j].credibility = s[k].credibility)
                      => pos(s[j]) < pos(s[k])

\* C22 witness: three stored groups of one priority, the second with a
\* higher score than the first and the third with the score of the first:
\* the order is second, first, third.
C22_Witness ==
    LET avail == CatalogAvailable(groupsCatalog, assignments)
    IN /\ Len(avail) = 3
       /\ avail[1].priority = avail[2].priority
       /\ avail[1].priority = avail[3].priority
       /\ avail[1].credibility < avail[2].credibility
       /\ avail[3].credibility = avail[1].credibility
       /\ SortedGroups(avail) = <<avail[2], avail[1], avail[3]>>

\* C24: storing a group whose link is already in the catalog changes
\* nothing: the catalog keeps exactly one row for the link, with the id and
\* the credibility score it had.
C24_UpsertExistingIsNoop ==
    [][\A l \in CatalogLinks :
          RowsOfLink(groupsCatalog, l) # {}
          => /\ RowsOfLink(groupsCatalog', l) = RowsOfLink(groupsCatalog, l)
             /\ Cardinality(RowsOfLink(groupsCatalog', l)) = 1]_vars

\* C25: the stored credibility score of every group lies between 0 and 10,
\* whatever score the update was called with.
C25_CredibilityInRange ==
    \A l \in AllLinks :
        programmingGroups[l] # 0
        => /\ pgScore[l].num >= 0
           /\ pgScore[l].num <= MaxCredibility * pgScore[l].den


(***************************************************************************)
(* C26: a classifier sets is_job to true exactly when (confidence > 0.10   *)
(* and at least one job_indicators keyword matched) or confidence > 0.15.  *)
(* TelegramService._is_job_message answers true for any of its keywords,   *)
(* whatever _calculate_job_score gives.                                    *)
(***************************************************************************)
C26_SignalRule ==
    returned.call \in {"is_job_message", "get_group_messages"} =>
        (returned.is_job <=>
            IsJobRule(returned.confidence,
                      CategoryMatches(TextLower(returned.text),
                                      job_keywords.job_indicators)))


(***************************************************************************)
(* C27: for an empty or whitespace-only text a classifier answers          *)
(* is_job = false and confidence = 0.0 with no category counted, and a     *)
(* channel of such messages has no job message.                            *)
(***************************************************************************)
IsBlank(text) == \A i \in 1..Len(text) : text[i] = " "

C27_BlankIsNoSignal ==
    /\ (returned.call \in {"is_job_message", "get_group_messages"}
            /\ IsBlank(returned.text))
        => /\ ~ returned.is_job
           /\ returned.confidence.num = 0
           /\ returned.matches = NoMatches
    /\ \A messages \in MessageLists :
          (\A k \in 1..Len(messages) : IsBlank(messages[k]))
              => AnalyzeChannel(messages).job_messages = 0

C27_Witness ==
    /\ returned.call = "is_job_message"
    /\ returned.text = BlankText
    /\ Len(returned.text) > 0
    /\ ~ returned.is_job


(***************************************************************************)
(* C28: for the text "We are hiring Python developers, 3+ years            *)
(* experience, apply now, salary 10 LPA, Bangalore" is_job_message answers *)
(* is_job = true.  Seven job indicators, one role, one technology and one  *)
(* location match: the weighted score is 25.5 of 184.5, a confidence       *)
(* greater than 0.10 and not greater than 0.15.                            *)
(***************************************************************************)
C28_HiringTextScore ==
    (returned.call = "is_job_message" /\ returned.text = HiringText)
        => /\ returned.is_job
           /\ returned.matches.job_indicators = 7
           /\ returned.confidence = [num |-> 51, den |-> 369]
           /\ Exceeds(returned.confidence, 10, 100)
           /\ ~ Exceeds(returned.confidence, 15, 100)

\* C28 as stated: is_job = true and a confidence greater than 0.15
C28_HiringTextAbove15 ==
    (returned.call = "is_job_message" /\ returned.text = HiringText)
        => /\ returned.is_job
           /\ Exceeds(returned.confidence, 15, 100)

C28_Witness ==
    /\ returned.call = "is_job_message"
    /\ returned.text = HiringText
    /\ returned.is_job
    /\ returned.confidence.num > 0


(***************************************************************************)
(* C29: an analysis never counts more job messages than messages, and the  *)
(* ratio it returns is the percentage job_count / total * 100, between 0.0 *)
(* and 100.0 inclusive, and 0.0 when there is no message.                  *)
(***************************************************************************)
AnalysisCalls ==
    {"analyze_all_channels", "analyze_group_messages",
     "simulate_group_joining"}

C30_HighValueAtThreshold ==
    returned.call \in AnalysisCalls =>
        LET threshold ==
                IF returned.call = "analyze_all_channels"
                THEN returned.min_job_messages
                ELSE MIN_JOB_MESSAGES
        IN  returned.is_high_value <=> returned.job_messages >= threshold


(***************************************************************************)
(* C31: every job count and high-value verdict recorded for a group is     *)
(* derived from what is_job_message answered on the messages fetched from  *)
(* that group.  The scrapers that simulate the joining record a random     *)
(* job count for a group from which no message was fetched.                *)
(***************************************************************************)
RecordingCalls ==
    {"analyze_all_channels", "analyze_group_messages", "add_group"}

C31_CountsFromScorer ==
    returned.call \in RecordingCalls =>
        /\ returned.total_messages = returned.fetched
        /\ returned.job_messages = returned.scored_jobs
        /\ returned.is_high_value
               <=> returned.scored_jobs >= returned.min_job_messages


C33_JoinedIsHeld ==
    [][\A p \in Procs :
          (pc[p] \in {"assign_get", "assign_create"}
              /\ pc'[p] \notin {"assign_get", "assign_create"})
          => /\ \E x \in assignments' :
                    /\ x.account = acct[p]
                    /\ x.group = grp[p]
                    /\ x.status = "active"
             /\ grp[p] \notin Range(GetAvailableGroups(assignments'))]_vars


(***************************************************************************)
(* C34: assign_group_to_account returns True only if, at that moment, the  *)
(* store holds an assignment with status active for the (account, group)   *)
(* pair.                                                                   *)
(***************************************************************************)
C34_TrueMeansActive ==
    [][\A p \in Procs :
          (pc[p] \in {"assign_get", "assign_create"}
              /\ pc'[p] \notin {"assign_get", "assign_create"}
              /\ ret'[p] = TRUE)
          => \E x \in assignments' :
                 /\ x.account = acct[p]
                 /\ x.group = grp[p]
                 /\ x.status = "active"]_vars


(***************************************************************************)
(* C35: create_assignment reports failure only if the call persisted no    *)
(* assignment row; a call that committed a row never returns a failure     *)
(* value.                                                                  *)
(***************************************************************************)
C35_FailureMeansNoRow ==
    \A p \in Procs :
        attempt[p].storeError => attempt[p].rowId = 0


(***************************************************************************)
(* C36: once no run of simulate_group_joining is under way for an account, *)
(* the groups_joined stored for (account, date) is the number of groups    *)
(* the account joined on that date, over all its batches of that date.     *)
(***************************************************************************)
C36_CountsAllBatches ==
    \A a \in Accounts, d \in Days :
        (\A p \in Procs : tacct[p] # a)
            => (IF dailyJoinsRow[a, d] = NoRow THEN 0 ELSE dailyJoinsRow[a, d])
                   = Cardinality(JoinedOn(a, d))

(***************************************************************************)
(* Claims about reset_daily_joins, checked under SpecReset.                *)
(***************************************************************************)
\* the step of instance i is reset_daily_joins: the tracking of today goes
IsResetCall(i) == dailyJoins[i] # NewManager /\ dailyJoins'[i] = NewManager

\* C37: within one calendar day a link handed out by get_groups_for_account
\* is never handed out again that day to any account, even if
\* reset_daily_joins runs in between: after a reset no call can select a
\* link that was handed out before it on the same day.
C37_HandedOutSurvivesReset ==
    [][\A i \in Instances :
          IsResetCall(i)
          => \A a \in Accounts, limit \in Limits :
                Range(Links(SelectedGroups(universalGroups', dailyJoins'[i].joins, a, limit)))
                    \cap DistinctHanded(dailyJoins[i].joins) = {}]_vars

(***************************************************************************)
(* Claims about GroupTracker.add_group, checked under SpecTracker.         *)
(***************************************************************************)
\* the link is in table groups
Stored(tbl, g) == \E k \in 1..Len(tbl) : tbl[k].link = g

\* the step is a turn of the loop of process p: add_group(Head(unique_groups))
IsAddGroupCall(p) ==
    /\ tpc[p] = "add" /\ uniqueGroups[p] # <<>>
    /\ uniqueGroups'[p] = Tail(uniqueGroups[p])

\* C38: each group link is recorded at most once in table groups: add_group
\* for a link that is already stored returns False (the group is not counted
\* as joined) and leaves every stored row, joined_by_account included, as
\* it was.
C38_LinkRecordedOnce ==
    [][/\ \A j, k \in 1..Len(groupsTable') :
              j # k => groupsTable'[j].link # groupsTable'[k].link
       /\ \A p \in Procs :
              (IsAddGroupCall(p) /\ Stored(groupsTable, Head(uniqueGroups[p])))
              => /\ groupsTable' = groupsTable
                 /\ joinedGroups'[p] = joinedGroups[p]]_vars

\* a run has been refused a link that another account had stored
C38_Witness ==
    \E p \in Procs :
        /\ tpc[p] = "add" /\ tacct[p] # 0
        /\ Len(uniqueGroups[p]) + joinedGroups[p] < GroupsPerAccount
        /\ \E k \in 1..Len(groupsTable) :
              /\ groupsTable[k].account # tacct[p]
              /\ groupsTable[k].link \in Range(GetUniqueGroups(<<>>, tacct[p]))
====
